---- MODULE Spec2Model ----
(***************************************************************************)
(* Material export cache of the RPR Blender add-on                         *)
(* (rprblender/export/material.py): key derivation, output-node and socket *)
(* lookup, sync (get-or-compile against rpr_context.materials) and         *)
(* sync_update (invalidate and recompile both channels); and the render-   *)
(* pass export of a view layer (rprblender/properties/view_layer.py,       *)
(* export_aovs).                                                           *)
(*                                                                         *)
(* Python values that end up as dictionary keys (str and nested tuples)    *)
(* are written as token sequences, so that a str never equals a tuple and  *)
(* tuples compare structurally, as in Python.                              *)
(*                                                                         *)
(* Execution is single-threaded and synchronous: every call runs to its    *)
(* return (or raise) as one step.  An object final_export creates is       *)
(* identified by a number never used before.                               *)
(***************************************************************************)
EXTENDS Naturals, Sequences, FiniteSets, TLC

VARIABLES
    node_tree,     \* host: material name -> its node tree ("None" or a sequence of nodes)
    materials,     \* rpr_context.materials: cache key -> compiled handle
    next_handle,   \* identity of the next object final_export creates
    last,          \* record of the most recent call and what it did
    upd,           \* observer: a completed sync_update, kept to compare later syncs with
    trace,         \* observer: which call compiled each handle, and the first syncs
                   \* that returned a handle since the last sync_update
    view_layer     \* host: the view layer with its render-pass (AOV) properties

vars == <<node_tree, materials, next_handle, last, upd, trace, view_layer>>

----------------------------------------------------------------------------
(* Bounds *)

\* final_export creates at most this many handles in one behaviour
MaxHandles == 2
\* longest node collection drawn for the lookup functions
MaxNodes == 2

----------------------------------------------------------------------------
(* Python values *)

\* None, as a handle / node index (no handle and no index is 0)
None == 0
\* None, where a node (named by its name) is expected
NoneNode == "None"

PyStr(s) == <<"str", s>>

RECURSIVE PyConcat(_)
PyConcat(items) ==
    IF items = <<>> THEN <<>> ELSE Head(items) \o PyConcat(Tail(items))

\* a tuple of already written values
PyTuple(items) == <<"(">> \o PyConcat(items) \o <<")">>

\* a tuple of str, such as uv_sets_names
PyStrTuple(strs) == PyTuple([i \in 1..Len(strs) |-> PyStr(strs[i])])

----------------------------------------------------------------------------
(* Host data: nodes, sockets, links, objects *)

Names == {"Glass", "Wood"}

LinkStates == {"unlinked", "valid", "invalid"}

\* an input socket of a node in one of the three link states
Socket(name, state, from) ==
    [name      |-> name,
     is_linked |-> state # "unlinked",
     links     |-> IF state = "unlinked" THEN <<>>
                   ELSE <<[is_valid |-> state = "valid", from_node |-> from]>>]

\* a ShaderNodeOutputMaterial node: Surface, Volume and Displacement inputs
OutputNode(active, surface, displacement) ==
    [bl_idname        |-> "ShaderNodeOutputMaterial",
     is_active_output |-> active,
     inputs           |-> {Socket("Surface", surface, "Principled BSDF"),
                           Socket("Volume", "unlinked", NoneNode),
                           Socket("Displacement", displacement, "Displacement")}]

UVMapNode ==
    [bl_idname |-> "ShaderNodeUVMap", is_active_output |-> FALSE, inputs |-> {}]

BsdfNode ==
    [bl_idname        |-> "ShaderNodeBsdfPrincipled",
     is_active_output |-> FALSE,
     inputs           |-> {Socket("Base Color", "unlinked", NoneNode)}]

\* an output node of another type that carries the active-output flag
LightOutputNode ==
    [bl_idname        |-> "ShaderNodeOutputLight",
     is_active_output |-> TRUE,
     inputs           |-> {Socket("Surface", "valid", "Emission")}]

NodeTemplates ==
    {OutputNode(TRUE, s, d) : s \in LinkStates, d \in LinkStates}
        \cup {OutputNode(FALSE, "valid", "valid"), UVMapNode, BsdfNode, LightOutputNode}

\* material.node_tree is None
NoTree == [is_none |-> TRUE, nodes |-> <<>>]
Tree(nodes) == [is_none |-> FALSE, nodes |-> nodes]

\* the node trees the host edits a material to while the cache is exercised
GlassTree    == Tree(<<BsdfNode, OutputNode(TRUE, "valid", "unlinked")>>)
WoodTree     == Tree(<<UVMapNode, OutputNode(TRUE, "valid", "valid")>>)
InactiveTree == Tree(<<UVMapNode, OutputNode(FALSE, "valid", "valid")>>)
BrokenTree   == Tree(<<OutputNode(TRUE, "invalid", "valid")>>)
HostTrees == {NoTree, GlassTree, WoodTree, InactiveTree, BrokenTree}
\* "Wood" is edited to every one of them; "Glass", the other material of the scene,
\* keeps its tree (Surface linked, Displacement unlinked, no UV-Map node)
TreesOf(name) == IF name = "Wood" THEN HostTrees ELSE {GlassTree}

\* the node trees the lookup functions are tried on
RECURSIVE NodeSeqs(_)
NodeSeqs(n) ==
    IF n = 0 THEN {<<>>}
    ELSE LET shorter == NodeSeqs(n - 1)
         IN  shorter \cup {Append(s, t) : s \in {x \in shorter : Len(x) = n - 1},
                                          t \in NodeTemplates}
LookupTrees == {NoTree} \cup {Tree(s) : s \in NodeSeqs(MaxNodes)}

\* names the lookup is asked for: three sockets of the output node and one it lacks
SocketKeys == {"Surface", "Volume", "Displacement", "Emission"}
\* the channels sync is asked for
Channels == {"Surface", "Displacement"}

\* consuming objects: obj=None, a non-mesh object, and meshes with their UV sets
NoObj == [cls |-> "NoneType", name |-> "None", uv_sets_names |-> <<>>]
Lamp  == [cls |-> "Object", name |-> "Lamp", uv_sets_names |-> <<>>]
MeshA == [cls |-> "Mesh", name |-> "A", uv_sets_names |-> <<"UVMap">>]
MeshB == [cls |-> "Mesh", name |-> "B", uv_sets_names |-> <<"UVMap", "UVMap2">>]
MeshC == [cls |-> "Mesh", name |-> "C", uv_sets_names |-> <<"UVMap">>]
Objects == {NoObj, Lamp, MeshA, MeshB, MeshC}

\* isinstance(obj, bpy.types.Mesh); an obj that passes carries
\* obj.data.rpr.uv_sets_names (line 63 reads it without further test)
IsMesh(obj) == obj.cls = "Mesh"

----------------------------------------------------------------------------
(* export/material.py: pure functions *)

\* key that drops the socket name: every channel shares the material's key
key_without_socket(material, input_socket_key) == material

\* key without the Surface case: every key is wrapped
key_always_wrapped(material, input_socket_key) ==
    PyTuple(<<material, PyStr(input_socket_key)>>)

\* key that drops the material from a non-Surface key
key_socket_only(material, input_socket_key) ==
    IF input_socket_key = "Surface"
    THEN material
    ELSE PyStr(input_socket_key)

\* key(material, input_socket_key=...)
key(material, input_socket_key) ==
    IF input_socket_key = "Surface"
    THEN material
    ELSE PyTuple(<<material, PyStr(input_socket_key)>>)

\* the output-node test without the active-output flag
IsMaterialOutput(node) ==
    node.bl_idname = "ShaderNodeOutputMaterial"

IsActiveMaterialOutput(node) ==
    node.bl_idname = "ShaderNodeOutputMaterial" /\ node.is_active_output

\* the search that keeps the last node that passes the test
RECURSIVE LastActiveOutput(_, _)
LastActiveOutput(nodes, i) ==
    IF i > Len(nodes) THEN None
    ELSE LET later == LastActiveOutput(nodes, i + 1)
         IN  IF later # None THEN later
             ELSE IF IsActiveMaterialOutput(nodes[i]) THEN i
             ELSE None

\* next((node for node in nodes if ...), None) from position i on: the position of
\* the first node that passes the test, None when the iteration is exhausted
RECURSIVE FirstActiveOutput(_, _)
FirstActiveOutput(nodes, i) ==
    IF i > Len(nodes) THEN None
    ELSE IF IsActiveMaterialOutput(nodes[i]) THEN i
    ELSE FirstActiveOutput(nodes, i + 1)

\* get_material_output_node(material): the node's position in the tree, None if none
get_material_output_node(tree) ==
    IF tree.is_none THEN None
    ELSE FirstActiveOutput(tree.nodes, 1)

\* get_material_nodes_by_type(material, bl_idname): positions of the nodes of that
\* type; material.node_tree.nodes raises AttributeError when node_tree is None
get_material_nodes_by_type(tree, bl_idname) ==
    IF tree.is_none
    THEN [exc |-> "AttributeError", value |-> {}]
    ELSE [exc |-> "",
          value |-> {i \in 1..Len(tree.nodes) : tree.nodes[i].bl_idname = bl_idname}]

\* has_uv_map_node(material)
has_uv_map_node(tree) ==
    LET found == get_material_nodes_by_type(tree, "ShaderNodeUVMap")
    IN  IF found.exc # "" THEN [exc |-> found.exc, value |-> FALSE]
        ELSE [exc |-> "", value |-> found.value # {}]

\* output_node.inputs[input_socket_key]: KeyError when no socket has that name
InputsByName(node, input_socket_key) ==
    {s \in node.inputs : s.name = input_socket_key}

\* the resolver without the test of the link's validity
get_material_input_node_any_link(tree, input_socket_key) ==
    LET output_node == get_material_output_node(tree)
    IN  IF output_node = None THEN [exc |-> "", value |-> NoneNode]
        ELSE LET found == InputsByName(tree.nodes[output_node], input_socket_key)
             IN  IF found = {} THEN [exc |-> "KeyError", value |-> NoneNode]
                 ELSE LET socket_in == CHOOSE s \in found : TRUE
                      IN  IF ~socket_in.is_linked
                          THEN [exc |-> "", value |-> NoneNode]
                          ELSE [exc |-> "", value |-> socket_in.links[1].from_node]

\* get_material_input_node(material, input_socket_key): the producing node's name
get_material_input_node(tree, input_socket_key) ==
    LET output_node == get_material_output_node(tree)
    IN  IF output_node = None THEN [exc |-> "", value |-> NoneNode]
        ELSE LET found == InputsByName(tree.nodes[output_node], input_socket_key)
             IN  IF found = {} THEN [exc |-> "KeyError", value |-> NoneNode]
                 ELSE LET socket_in == CHOOSE s \in found : TRUE
                      IN  IF ~socket_in.is_linked \/ ~socket_in.links[1].is_valid
                          THEN [exc |-> "", value |-> NoneNode]
                          ELSE [exc |-> "", value |-> socket_in.links[1].from_node]

----------------------------------------------------------------------------
(* Renderer context and node parser: the parts sync calls *)

\* a lookup that never finds anything
materials_get_miss(reg, mat_key) == None

\* rpr_context.materials.get(mat_key, None)
materials_get(reg, mat_key) ==
    IF mat_key \in DOMAIN reg THEN reg[mat_key] ELSE None

\* rpr_context.set_material_node_as_material(key, material_node)
set_material_node_as_material(reg, mat_key, rpr_material) ==
    [k \in DOMAIN reg \cup {mat_key} |-> IF k = mat_key THEN rpr_material ELSE reg[k]]

\* rpr_context.remove_material(key)
remove_material(reg, mat_key) ==
    [k \in DOMAIN reg \ {mat_key} |-> reg[k]]

\* ShaderNodeOutputMaterial(..., output_node, ...).final_export(input_socket_key):
\* the new handle when the output node's socket resolves to a producing node
\* (linked by a valid link), None otherwise
final_export(tree, output_node, input_socket_key, handle) ==
    LET found == InputsByName(tree.nodes[output_node], input_socket_key)
    IN  IF found = {} THEN None
        ELSE LET socket_in == CHOOSE s \in found : TRUE
             IN  IF socket_in.is_linked /\ socket_in.links[1].is_valid
                 THEN handle
                 ELSE None

----------------------------------------------------------------------------
(* export/material.py: sync and sync_update *)

\* an identity that leaves the object's UV sets out
uv_identity_name_only(name, obj) ==
    PyTuple(<<PyStr(name), PyStrTuple(<<>>)>>)

\* (material.name, obj.data.rpr.uv_sets_names)
uv_identity(name, obj) ==
    PyTuple(<<PyStr(name), PyStrTuple(obj.uv_sets_names)>>)

\* sync, lines 61-65: the cache key of the call; has_uv_map_node is evaluated
\* only for a Mesh (and short-circuits otherwise) and may raise
sync_mat_key(name, input_socket_key, obj) ==
    IF IsMesh(obj)
    THEN LET uv == has_uv_map_node(node_tree[name])
         IN  IF uv.exc # "" THEN [exc |-> uv.exc, value |-> <<>>]
             ELSE IF uv.value
             THEN [exc |-> "", value |-> key(uv_identity(name, obj), input_socket_key)]
             ELSE [exc |-> "", value |-> key(PyStr(name), input_socket_key)]
    ELSE [exc |-> "", value |-> key(PyStr(name), input_socket_key)]

\* no registration at all
sync_register_never(reg, mat_key, rpr_material) == reg

\* registration without the test of the compile's result
sync_register_unconditional(reg, mat_key, rpr_material) ==
    set_material_node_as_material(reg, mat_key, rpr_material)

\* sync, lines 79-80: register the compiled material only when there is one
sync_register(reg, mat_key, rpr_material) ==
    IF rpr_material # None
    THEN set_material_node_as_material(reg, mat_key, rpr_material)
    ELSE reg

\* register-then-fill: the key is written before the compile and stays there
\* when the compile gives nothing
sync_compile_register_first(reg, nh, name, input_socket_key, mat_key) ==
    LET output_node == get_material_output_node(node_tree[name])
    IN  IF output_node = None
        THEN [materials |-> reg, next_handle |-> nh, ret |-> None, exc |-> "",
              exports |-> 0, mat_key |-> mat_key]
        ELSE LET rpr_material ==
                     final_export(node_tree[name], output_node, input_socket_key, nh)
             IN  [materials   |-> set_material_node_as_material(reg, mat_key, nh),
                  next_handle |-> nh + 1,
                  ret         |-> rpr_material,
                  exc         |-> "",
                  exports     |-> 1,
                  mat_key     |-> mat_key]

\* sync, lines 71-82: the cache missed; find the output node, compile, register
sync_compile(reg, nh, name, input_socket_key, mat_key) ==
    LET output_node == get_material_output_node(node_tree[name])
    IN  IF output_node = None
        THEN [materials |-> reg, next_handle |-> nh, ret |-> None, exc |-> "",
              exports |-> 0, mat_key |-> mat_key]
        ELSE LET rpr_material ==
                     final_export(node_tree[name], output_node, input_socket_key, nh)
             IN  [materials   |-> sync_register(reg, mat_key, rpr_material),
                  next_handle |-> IF rpr_material # None THEN nh + 1 ELSE nh,
                  ret         |-> rpr_material,
                  exc         |-> "",
                  exports     |-> 1,
                  mat_key     |-> mat_key]

\* a sync whose cache hit is not handed back to the caller
sync_hit_not_returned(reg, nh, name, input_socket_key, obj) ==
    LET mk == sync_mat_key(name, input_socket_key, obj)
    IN  IF mk.exc # ""
        THEN [materials |-> reg, next_handle |-> nh, ret |-> None, exc |-> mk.exc,
              exports |-> 0, mat_key |-> <<>>]
        ELSE LET rpr_material == materials_get(reg, mk.value)
             IN  IF rpr_material # None
                 THEN [materials |-> reg, next_handle |-> nh, ret |-> None,
                       exc |-> "", exports |-> 0, mat_key |-> mk.value]
                 ELSE sync_compile(reg, nh, name, input_socket_key, mk.value)

\* sync(rpr_context, material, input_socket_key, obj=obj) on registry reg, with nh
\* the next handle: the registry and the next handle after the call, what it
\* returned or raised, how often it called final_export, and the key it derived
sync(reg, nh, name, input_socket_key, obj) ==
    LET mk == sync_mat_key(name, input_socket_key, obj)
    IN  IF mk.exc # ""
        THEN [materials |-> reg, next_handle |-> nh, ret |-> None, exc |-> mk.exc,
              exports |-> 0, mat_key |-> <<>>]
        ELSE LET rpr_material == materials_get(reg, mk.value)
             IN  IF rpr_material # None
                 THEN [materials |-> reg, next_handle |-> nh, ret |-> rpr_material,
                       exc |-> "", exports |-> 0, mat_key |-> mk.value]
                 ELSE sync_compile(reg, nh, name, input_socket_key, mk.value)

\* sync_update, lines 90-94: the primary key of the update
sync_update_mat_key(name, obj) ==
    IF IsMesh(obj)
    THEN LET uv == has_uv_map_node(node_tree[name])
         IN  IF uv.exc # "" THEN [exc |-> uv.exc, value |-> <<>>]
             ELSE IF uv.value
             THEN [exc |-> "", value |-> key(uv_identity(name, obj), "Surface")]
             ELSE [exc |-> "", value |-> key(PyStr(name), "Surface")]
    ELSE [exc |-> "", value |-> key(PyStr(name), "Surface")]

\* no removal: the old entry stays
remove_skipped(reg, mat_key) == reg

\* an invalidation that empties the registry
remove_everything(reg, mat_key) == [k \in {} |-> None]

\* sync_update, lines 96-97 and 102-103: remove the entry if the key is present
remove_if_present(reg, mat_key) ==
    IF mat_key \in DOMAIN reg THEN remove_material(reg, mat_key) ELSE reg

\* sync_update, line 105: the consuming object handed to the Displacement sync
\* (the call names no obj, so sync sees its default, None)
displacement_sync_obj(obj) == NoObj

\* sync_update, lines 101-107, after the Surface sync s1 ran on r1: remove the
\* Displacement key, run the Displacement sync s2, return True
sync_update_displacement(name, obj, mat_key, r1, s1, displacement_key, r3, s2) ==
    IF s2.exc # ""
    THEN [materials |-> s2.materials, next_handle |-> s2.next_handle,
          ret |-> FALSE, exc |-> s2.exc, exports |-> s1.exports + s2.exports,
          mat_key |-> mat_key, displacement_key |-> displacement_key,
          stages |-> <<r1, s1.materials, r3>>,
          surface |-> s1.ret, displacement |-> None]
    ELSE [materials |-> s2.materials, next_handle |-> s2.next_handle,
          ret |-> TRUE, exc |-> "", exports |-> s1.exports + s2.exports,
          mat_key |-> mat_key, displacement_key |-> displacement_key,
          stages |-> <<r1, s1.materials, r3, s2.materials>>,
          surface |-> s1.ret, displacement |-> s2.ret]

\* sync_update, lines 96-105, for the primary key mat_key: remove its entry (r1),
\* run the Surface sync (s1), then the Displacement part
sync_update_surface(name, obj, mat_key, r1, s1) ==
    IF s1.exc # ""
    THEN [materials |-> s1.materials, next_handle |-> s1.next_handle,
          ret |-> FALSE, exc |-> s1.exc, exports |-> s1.exports,
          mat_key |-> mat_key, displacement_key |-> <<>>,
          stages |-> <<r1>>, surface |-> None, displacement |-> None]
    ELSE \* one evaluation of each step: r3 and s2 are handed on as arguments
         LET displacement_key == key(mat_key, "Displacement")
             r3 == remove_if_present(s1.materials, displacement_key)
         IN  sync_update_displacement(
                 name, obj, mat_key, r1, s1, displacement_key, r3,
                 sync(r3, s1.next_handle, name, "Displacement",
                      displacement_sync_obj(obj)))

\* sync_update(rpr_context, material, obj): the registry after each of its four
\* steps (stages), the two syncs' outcomes, and what it returned or raised
sync_update(reg, nh, name, obj) ==
    LET mk == sync_update_mat_key(name, obj)
    IN  IF mk.exc # ""
        THEN [materials |-> reg, next_handle |-> nh, ret |-> FALSE, exc |-> mk.exc,
              exports |-> 0, mat_key |-> <<>>, displacement_key |-> <<>>,
              stages |-> <<>>, surface |-> None, displacement |-> None]
        ELSE LET r1 == remove_if_present(reg, mk.value)
             IN  sync_update_surface(name, obj, mk.value, r1,
                                     sync(r1, nh, name, "Surface", obj))

----------------------------------------------------------------------------
(* properties/view_layer.py: the render-pass (AOV) tables and export_aovs *)

\* one entry of an AOV table: the renderer's AOV, the pass name, its channels
Aov(rpr, name, channel) == [rpr |-> rpr, name |-> name, channel |-> channel]

\* a Python tuple as indexed by the code: from 0
PyIndexed(items) == [i \in 0..(Len(items) - 1) |-> items[i + 1]]

\* RPR_ViewLayerProperites.aovs_info
aovs_info ==
    PyIndexed(<<
        Aov("AOV_COLOR", "Combined", <<"R", "G", "B", "A">>),
        Aov("AOV_DEPTH", "Depth", <<"Z">>),
        Aov("AOV_COLOR", "Color", <<"R", "G", "B", "A">>),
        Aov("AOV_UV", "UV", <<"U", "V", "A">>),
        Aov("AOV_OBJECT_ID", "Object Index", <<"X">>),
        Aov("AOV_MATERIAL_ID", "Material Index", <<"X">>),
        Aov("AOV_WORLD_COORDINATE", "World Coordinate", <<"X", "Y", "Z">>),
        Aov("AOV_GEOMETRIC_NORMAL", "Geometric Normal", <<"X", "Y", "Z">>),
        Aov("AOV_SHADING_NORMAL", "Shading Normal", <<"X", "Y", "Z">>),
        Aov("AOV_CAMERA_NORMAL", "Camera Normal", <<"X", "Y", "Z">>),
        Aov("AOV_OBJECT_GROUP_ID", "Group Index", <<"X">>),
        Aov("AOV_SHADOW_CATCHER", "Shadow Catcher", <<"A">>),
        Aov("AOV_REFLECTION_CATCHER", "Reflection Catcher", <<"A">>),
        Aov("AOV_BACKGROUND", "Background", <<"R", "G", "B">>),
        Aov("AOV_EMISSION", "Emission", <<"R", "G", "B">>),
        Aov("AOV_VELOCITY", "Velocity", <<"X", "Y", "Z">>),
        Aov("AOV_DIRECT_ILLUMINATION", "Direct Illumination", <<"R", "G", "B">>),
        Aov("AOV_INDIRECT_ILLUMINATION", "Indirect Illumination", <<"R", "G", "B">>),
        Aov("AOV_AO", "Ambient Occlusion", <<"R", "G", "B">>),
        Aov("AOV_DIRECT_DIFFUSE", "Direct Diffuse", <<"R", "G", "B">>),
        Aov("AOV_DIRECT_REFLECT", "Direct Reflect", <<"R", "G", "B">>),
        Aov("AOV_INDIRECT_DIFFUSE", "Indirect Diffuse", <<"R", "G", "B">>),
        Aov("AOV_INDIRECT_REFLECT", "Indirect Reflect", <<"R", "G", "B">>),
        Aov("AOV_REFRACT", "Refraction", <<"R", "G", "B">>),
        Aov("AOV_VOLUME", "Volume", <<"R", "G", "B">>),
        Aov("AOV_OPACITY", "Opacity", <<"A">>),
        Aov("AOV_LIGHT_GROUP0", "Light Group 1", <<"R", "G", "B">>),
        Aov("AOV_LIGHT_GROUP1", "Light Group 2", <<"R", "G", "B">>),
        Aov("AOV_LIGHT_GROUP2", "Light Group 3", <<"R", "G", "B">>),
        Aov("AOV_LIGHT_GROUP3", "Light Group 4", <<"R", "G", "B">>),
        Aov("AOV_VARIANCE", "Color Variance", <<"R", "G", "B">>),
        Aov("AOV_DIFFUSE_ALBEDO", "Diffuse Albedo", <<"R", "G", "B">>)
    >>)

\* RPR_ViewLayerProperites.cryptomatte_aovs_info
cryptomatte_aovs_info ==
    PyIndexed(<<
        Aov("AOV_CRYPTOMATTE_MAT0", "CryptoMaterial00", <<"R", "G", "B", "A">>),
        Aov("AOV_CRYPTOMATTE_MAT1", "CryptoMaterial01", <<"R", "G", "B", "A">>),
        Aov("AOV_CRYPTOMATTE_MAT2", "CryptoMaterial02", <<"R", "G", "B", "A">>),
        Aov("AOV_CRYPTOMATTE_OBJ0", "CryptoObject00", <<"R", "G", "B", "A">>),
        Aov("AOV_CRYPTOMATTE_OBJ1", "CryptoObject01", <<"R", "G", "B", "A">>),
        Aov("AOV_CRYPTOMATTE_OBJ2", "CryptoObject02", <<"R", "G", "B", "A">>)
    >>)

\* RPR_ViewLayerProperites.contour_info
contour_info ==
    Aov("AOV_COLOR", "Outline", <<"R", "G", "B", "A">>)

\* the view layer after construction: enable_aovs is set for "Combined" and
\* "Depth" only, the cryptomatte and contour properties are off; the host's own
\* combined and Z passes are on
ViewLayer ==
    [name              |-> "ViewLayer",
     use_pass_combined |-> TRUE,
     use_pass_z        |-> TRUE,
     rpr |-> [enable_aovs |->
                  [i \in DOMAIN aovs_info |-> aovs_info[i].name \in {"Combined", "Depth"}],
              crytomatte_aov_object   |-> FALSE,
              crytomatte_aov_material |-> FALSE,
              use_contour_render      |-> FALSE]]

\* what one export_aovs call does: its rpr_context.enable_aov calls and its
\* rpr_engine.add_pass calls, in order
NoOutput == [aovs |-> <<>>, passes |-> <<>>]

\* rpr_engine.add_pass(aov['name'], len(aov['channel']), aov['channel'], layer=...)
add_pass(out, aov, layer) ==
    [out EXCEPT !.passes =
        Append(@, [name |-> aov.name, channels |-> Len(aov.channel),
                   chan_id |-> aov.channel, layer |-> layer])]

\* rpr_context.enable_aov(aov_type)
enable_aov(out, aov_type) ==
    [out EXCEPT !.aovs = Append(@, aov_type)]

\* no AOV enabled up front
enable_nothing(out) == out

\* export_aovs, lines 503-504: "should always be enabled"
enable_color_and_depth(out) ==
    enable_aov(enable_aov(out, "AOV_COLOR"), "AOV_DEPTH")

\* export_aovs, lines 507-522: the loop body for index i of enable_aovs
export_enabled_aov(out, self, context_view_layer, layer, enable_adaptive, i) ==
    LET aov == aovs_info[i]
    IN  IF ~self.enable_aovs[i] THEN out
        ELSE IF aov.rpr = "AOV_VARIANCE" /\ ~enable_adaptive THEN out
        ELSE IF aov.name = "Combined" /\ context_view_layer.use_pass_combined THEN out
        ELSE IF aov.name = "Depth" /\ context_view_layer.use_pass_z THEN out
        ELSE enable_aov(add_pass(out, aov, layer), aov.rpr)

\* export_aovs, line 506: for i, enable_aov in enumerate(self.enable_aovs), from i on
RECURSIVE export_enabled_aovs(_, _, _, _, _, _)
export_enabled_aovs(out, self, context_view_layer, layer, enable_adaptive, i) ==
    IF i \notin DOMAIN self.enable_aovs THEN out
    ELSE export_enabled_aovs(
             export_enabled_aov(out, self, context_view_layer, layer, enable_adaptive, i),
             self, context_view_layer, layer, enable_adaptive, i + 1)

\* for i in range(start, stop): add the pass of cryptomatte_aovs_info[i] and
\* enable its AOV (lines 526-529 and 532-535)
RECURSIVE export_cryptomatte_range(_, _, _, _)
export_cryptomatte_range(out, layer, start, stop) ==
    IF start >= stop THEN out
    ELSE LET aov == cryptomatte_aovs_info[start]
         IN  export_cryptomatte_range(
                 enable_aov(add_pass(out, aov, layer), aov.rpr), layer, start + 1, stop)

\* the two cryptomatte groups under their own properties only
export_cryptomatte_ungated(out, self, layer, cryptomatte_allowed) ==
    LET material == IF self.crytomatte_aov_material
                    THEN export_cryptomatte_range(out, layer, 0, 3)
                    ELSE out
    IN  IF self.crytomatte_aov_object
        THEN export_cryptomatte_range(material, layer, 3, 6)
        ELSE material

\* export_aovs, lines 524-535
export_cryptomatte_aovs(out, self, layer, cryptomatte_allowed) ==
    IF ~cryptomatte_allowed THEN out
    ELSE LET material == IF self.crytomatte_aov_material
                         THEN export_cryptomatte_range(out, layer, 0, 3)
                         ELSE out
         IN  IF self.crytomatte_aov_object
             THEN export_cryptomatte_range(material, layer, 3, 6)
             ELSE material

\* export_aovs, lines 537-539: the contour pass is added, no AOV is enabled for it
export_contour(out, self, layer) ==
    IF self.use_contour_render THEN add_pass(out, contour_info, layer) ELSE out

\* self.export_aovs(view_layer, rpr_context, rpr_engine, enable_adaptive,
\* cryptomatte_allowed); context_view_layer is bpy.context.view_layer
export_aovs(self, layer, context_view_layer, enable_adaptive, cryptomatte_allowed) ==
    export_contour(
        export_cryptomatte_aovs(
            export_enabled_aovs(enable_color_and_depth(NoOutput), self,
                                context_view_layer, layer, enable_adaptive, 0),
            self, layer, cryptomatte_allowed),
        self, layer)

----------------------------------------------------------------------------
(* State machine *)

EmptyRegistry == [k \in {} |-> None]

\* the record of a call: which operation with which arguments, what it returned
\* (ret: a handle, node: a node name, index: a node position, ok: a bool) or
\* raised, how often it ran final_export, the registry before it (pre), the key
\* it derived and, for sync_update, its intermediate registries and both syncs;
\* for export_aovs, its two flags and its enable_aov and add_pass calls;
\* again: the call before it was the same call (a sync with the same arguments
\* that did not raise), and then before_* is what that call did
Call(op, name, socket, obj) ==
    [op |-> op, material |-> name, socket |-> socket, obj |-> obj,
     identity |-> <<>>,
     ret |-> None, node |-> NoneNode, index |-> None, ok |-> FALSE, exc |-> "",
     exports |-> 0, pre |-> EmptyRegistry, mat_key |-> <<>>,
     displacement_key |-> <<>>, stages |-> <<>>,
     surface |-> None, displacement |-> None,
     enable_adaptive |-> FALSE, cryptomatte_allowed |-> FALSE,
     aovs |-> <<>>, passes |-> <<>>,
     again |-> FALSE, before_ret |-> None, before_exports |-> 0, before_hit |-> FALSE]

NoCall == Call("none", "", "", NoObj)

\* what is kept of a sync_update: its arguments, the keys it invalidated and the
\* handles the registry held when it started
Update(name, obj, mat_key, displacement_key, pre, has_uv) ==
    [set |-> TRUE, material |-> name, obj |-> obj, mat_key |-> mat_key,
     displacement_key |-> displacement_key, pre |-> pre, has_uv |-> has_uv]
NoUpd == [Update("", NoObj, <<>>, <<>>, <<>>, FALSE) EXCEPT !.set = FALSE]

\* the material's node tree holds a UV-Map node
HasUVMapNode(tree) ==
    /\ ~tree.is_none
    /\ \E i \in 1..Len(tree.nodes) : tree.nodes[i].bl_idname = "ShaderNodeUVMap"

\* the handles a registry holds
Handles(reg) == {reg[k] : k \in DOMAIN reg}

\* the material identity of a call (lines 61-65 and 90-94), from its arguments
IdentityOf(name, obj) ==
    IF IsMesh(obj) /\ HasUVMapNode(node_tree[name])
    THEN uv_identity(name, obj)
    ELSE PyStr(name)

\* what is kept of the call that compiled a handle
Compiled(name, input_socket_key, obj) ==
    [identity |-> IdentityOf(name, obj), socket |-> input_socket_key]

\* what is kept of a sync that returned a handle
Returned(name, input_socket_key, obj, handle) ==
    [material |-> name, socket |-> input_socket_key, obj |-> obj,
     identity |-> IdentityOf(name, obj), handle |-> handle]

\* made[h]: the call that compiled handle h; since: for each material identity
\* and socket, the first sync since the last sync_update that returned a handle
NoTrace == [made |-> <<>>, since |-> {}]

Init ==
    /\ node_tree \in {f \in [Names -> HostTrees] : \A n \in Names : f[n] \in TreesOf(n)}
    /\ materials = EmptyRegistry
    /\ next_handle = 1
    /\ last = NoCall
    /\ upd = NoUpd
    /\ trace = NoTrace
    /\ view_layer = ViewLayer

\* the host edits a material: its node tree becomes another one
EditMaterial(name, tree) ==
    /\ node_tree[name] # tree
    /\ node_tree' = [node_tree EXCEPT ![name] = tree]
    /\ last' = Call("edit", name, "", NoObj)
    /\ UNCHANGED <<materials, next_handle, upd, trace, view_layer>>

\* the call recorded in last is this sync call, and it returned
SameSync(name, input_socket_key, obj) ==
    /\ last.op = "sync"
    /\ last.material = name
    /\ last.socket = input_socket_key
    /\ last.obj = obj
    /\ last.exc = ""

\* a caller runs sync(rpr_context, material, input_socket_key, obj=obj); r is
\* its outcome
SyncCall(name, input_socket_key, obj, r) ==
    /\ r.next_handle <= MaxHandles + 1
    /\ materials' = r.materials
    /\ next_handle' = r.next_handle
    /\ last' = [Call("sync", name, input_socket_key, obj) EXCEPT
                    !.ret = r.ret, !.exc = r.exc, !.exports = r.exports,
                    !.pre = materials, !.mat_key = r.mat_key,
                    !.again = SameSync(name, input_socket_key, obj),
                    !.before_ret =
                        IF SameSync(name, input_socket_key, obj)
                        THEN last.ret ELSE None,
                    !.before_exports =
                        IF SameSync(name, input_socket_key, obj)
                        THEN last.exports ELSE 0,
                    !.before_hit =
                        /\ SameSync(name, input_socket_key, obj)
                        /\ last.mat_key \in DOMAIN last.pre]
    /\ UNCHANGED node_tree

Sync(name, input_socket_key, obj) ==
    \E r \in {sync(materials, next_handle, name, input_socket_key, obj)} :
        /\ SyncCall(name, input_socket_key, obj, r)
        /\ UNCHANGED <<upd, trace, view_layer>>

\* a caller runs sync_update(rpr_context, material, obj); r is its outcome
SyncUpdateCall(name, obj, r) ==
    /\ r.next_handle <= MaxHandles + 1
    /\ materials' = r.materials
    /\ next_handle' = r.next_handle
    /\ last' = [Call("sync_update", name, "", obj) EXCEPT
                    !.ok = r.ret, !.exc = r.exc, !.exports = r.exports,
                    !.pre = materials, !.mat_key = r.mat_key,
                    !.displacement_key = r.displacement_key,
                    !.stages = r.stages,
                    !.surface = r.surface, !.displacement = r.displacement]
    /\ UNCHANGED node_tree

SyncUpdate(name, obj) ==
    \E r \in {sync_update(materials, next_handle, name, obj)} :
        /\ SyncUpdateCall(name, obj, r)
        /\ UNCHANGED <<upd, trace, view_layer>>

\* the same call, observed: a completed sync_update may be kept in upd, replacing
\* the one kept before
ObservedSyncUpdate(name, obj) ==
    \E r \in {sync_update(materials, next_handle, name, obj)} :
        /\ SyncUpdateCall(name, obj, r)
        /\ upd' \in IF r.exc # "" THEN {upd}
                    ELSE {upd, Update(name, obj, r.mat_key, r.displacement_key,
                                      materials, HasUVMapNode(node_tree[name]))}
        /\ UNCHANGED <<trace, view_layer>>

Next ==
    \/ \E name \in Names : \E tree \in TreesOf(name) : EditMaterial(name, tree)
    \/ \E name \in Names, s \in Channels, obj \in Objects : Sync(name, s, obj)
    \/ \E name \in Names, obj \in Objects : SyncUpdate(name, obj)

Spec == Init /\ [][Next]_vars

\* the calls on one material, with the completed sync_update calls observed
ObservedNames == {"Wood"}
ObservedObjects == {NoObj, MeshA}

NextObserved ==
    \/ \E name \in ObservedNames : \E tree \in TreesOf(name) : EditMaterial(name, tree)
    \/ \E name \in ObservedNames, s \in Channels, obj \in ObservedObjects :
           Sync(name, s, obj)
    \/ \E name \in ObservedNames, obj \in ObservedObjects : ObservedSyncUpdate(name, obj)

SpecObserved == Init /\ [][NextObserved]_vars

----------------------------------------------------------------------------
(* The same calls, traced: who compiled which handle *)

TracedNames == Names
TracedObjects == {NoObj, MeshA, MeshB}

TracedSync(name, input_socket_key, obj) ==
    \E r \in {sync(materials, next_handle, name, input_socket_key, obj)} :
        /\ SyncCall(name, input_socket_key, obj, r)
        /\ trace' =
               [trace EXCEPT !.made =
                   IF r.next_handle > next_handle
                   THEN Append(@, Compiled(name, input_socket_key, obj))
                   ELSE @]
        /\ UNCHANGED <<upd, view_layer>>

\* sync_update compiles through its two syncs, the second one without obj
TracedSyncUpdate(name, obj) ==
    \E r \in {sync_update(materials, next_handle, name, obj)} :
        /\ SyncUpdateCall(name, obj, r)
        /\ LET surface ==
                   IF r.surface # None /\ r.surface >= next_handle
                   THEN Append(trace.made, Compiled(name, "Surface", obj))
                   ELSE trace.made
               displacement ==
                   IF r.displacement # None /\ r.displacement >= next_handle
                   THEN Append(surface,
                               Compiled(name, "Displacement", displacement_sync_obj(obj)))
                   ELSE surface
           IN  trace' = [trace EXCEPT !.made = displacement]
        /\ UNCHANGED <<upd, view_layer>>

NextTraced ==
    \/ \E name \in TracedNames : \E tree \in TreesOf(name) : EditMaterial(name, tree)
    \/ \E name \in TracedNames, s \in Channels, obj \in TracedObjects :
           TracedSync(name, s, obj)
    \/ \E name \in TracedNames, obj \in TracedObjects : TracedSyncUpdate(name, obj)

SpecTraced == Init /\ [][NextTraced]_vars

----------------------------------------------------------------------------
(* The same calls, with the runs of syncs between two sync_update calls *)

SharedNames == {"Wood"}
SharedObjects == {NoObj, Lamp, MeshA, MeshC}

\* a sync that returns a handle is kept when it is the first one of the run to
\* do so for its material identity and socket
SharedSync(name, input_socket_key, obj) ==
    \E r \in {sync(materials, next_handle, name, input_socket_key, obj)} :
        /\ SyncCall(name, input_socket_key, obj, r)
        /\ trace' =
               [trace EXCEPT !.since =
                   IF /\ r.exc = ""
                      /\ r.ret # None
                      /\ \A e \in @ : ~( /\ e.identity = IdentityOf(name, obj)
                                         /\ e.socket = input_socket_key )
                   THEN @ \cup {Returned(name, input_socket_key, obj, r.ret)}
                   ELSE @]
        /\ UNCHANGED <<upd, view_layer>>

\* a sync_update ends the run
SharedSyncUpdate(name, obj) ==
    \E r \in {sync_update(materials, next_handle, name, obj)} :
        /\ SyncUpdateCall(name, obj, r)
        /\ trace' = [trace EXCEPT !.since = {}]
        /\ UNCHANGED <<upd, view_layer>>

NextShared ==
    \/ \E name \in SharedNames : \E tree \in TreesOf(name) : EditMaterial(name, tree)
    \/ \E name \in SharedNames, s \in Channels, obj \in SharedObjects :
           SharedSync(name, s, obj)
    \/ \E name \in SharedNames, obj \in SharedObjects : SharedSyncUpdate(name, obj)

SpecShared == Init /\ [][NextShared]_vars

----------------------------------------------------------------------------
(* The view layer's render passes *)

\* the entries of enable_aovs the user switches: the two default passes, one more
\* pass of the colour AOV, an ordinary pass, the variance pass, and the last entry
ToggledAovs == {"Combined", "Depth", "Color", "UV", "Color Variance", "Diffuse Albedo"}

\* the user switches enable_aovs[i]
SetEnableAov(i) ==
    /\ view_layer' = [view_layer EXCEPT !.rpr.enable_aovs[i] = ~@]
    /\ last' = Call("set", "", "", NoObj)
    /\ UNCHANGED <<node_tree, materials, next_handle, upd, trace>>

\* the user switches crytomatte_aov_object, crytomatte_aov_material or
\* use_contour_render
SetRenderProperty(property) ==
    /\ view_layer' = [view_layer EXCEPT !.rpr[property] = ~@]
    /\ last' = Call("set", "", "", NoObj)
    /\ UNCHANGED <<node_tree, materials, next_handle, upd, trace>>

\* the user switches the host's own combined or Z pass
SetHostPass(property) ==
    /\ view_layer' = [view_layer EXCEPT ![property] = ~@]
    /\ last' = Call("set", "", "", NoObj)
    /\ UNCHANGED <<node_tree, materials, next_handle, upd, trace>>

\* view_layer.rpr.export_aovs(view_layer, rpr_context, rpr_engine,
\* enable_adaptive, cryptomatte_allowed), with view_layer the context's
ExportAovs(enable_adaptive, cryptomatte_allowed) ==
    \E r \in {export_aovs(view_layer.rpr, view_layer.name, view_layer,
                          enable_adaptive, cryptomatte_allowed)} :
        /\ last' = [Call("export_aovs", "", "", NoObj) EXCEPT
                        !.enable_adaptive = enable_adaptive,
                        !.cryptomatte_allowed = cryptomatte_allowed,
                        !.aovs = r.aovs, !.passes = r.passes]
        /\ UNCHANGED <<node_tree, materials, next_handle, upd, trace, view_layer>>

NextAovs ==
    \/ \E i \in {j \in DOMAIN aovs_info : aovs_info[j].name \in ToggledAovs} :
           SetEnableAov(i)
    \/ \E property \in {"crytomatte_aov_object", "crytomatte_aov_material",
                        "use_contour_render"} : SetRenderProperty(property)
    \/ \E property \in {"use_pass_combined", "use_pass_z"} : SetHostPass(property)
    \/ \E enable_adaptive \in BOOLEAN, cryptomatte_allowed \in BOOLEAN :
           ExportAovs(enable_adaptive, cryptomatte_allowed)

SpecAovs == Init /\ [][NextAovs]_vars

----------------------------------------------------------------------------
(* The pure functions on their own: key and the two lookups *)

\* the material identities sync builds: a bare name, or (name, uv_sets_names)
Identities ==
    {PyStr(n) : n \in Names}
        \cup {uv_identity(n, o) : n \in Names, o \in {x \in Objects : IsMesh(x)}}

InitLookup ==
    /\ \E tree \in LookupTrees : node_tree = [n \in Names |-> tree]
    /\ materials = EmptyRegistry
    /\ next_handle = 1
    /\ last = NoCall
    /\ upd = NoUpd
    /\ trace = NoTrace
    /\ view_layer = ViewLayer

\* key(material, input_socket_key=input_socket_key)
KeyCall(material, input_socket_key) ==
    /\ last' = [Call("key", "", input_socket_key, NoObj) EXCEPT
                    !.identity = material,
                    !.mat_key = key(material, input_socket_key)]
    /\ UNCHANGED <<node_tree, materials, next_handle, upd, trace, view_layer>>

\* get_material_output_node(material)
GetMaterialOutputNode(name) ==
    /\ last' = [Call("get_material_output_node", name, "", NoObj) EXCEPT
                    !.index = get_material_output_node(node_tree[name])]
    /\ UNCHANGED <<node_tree, materials, next_handle, upd, trace, view_layer>>

\* get_material_input_node(material, input_socket_key)
GetMaterialInputNode(name, input_socket_key) ==
    \E r \in {get_material_input_node(node_tree[name], input_socket_key)} :
        /\ last' = [Call("get_material_input_node", name, input_socket_key, NoObj)
                        EXCEPT !.node = r.value, !.exc = r.exc]
        /\ UNCHANGED <<node_tree, materials, next_handle, upd, trace, view_layer>>

NextLookup ==
    \/ \E material \in Identities, s \in SocketKeys : KeyCall(material, s)
    \/ GetMaterialOutputNode("Wood")
    \/ \E s \in SocketKeys : GetMaterialInputNode("Wood", s)

SpecLookup == InitLookup /\ [][NextLookup]_vars

----------------------------------------------------------------------------
(* Properties *)

\* the entry of a registry under a key: its handle, None when the key is absent
Entry(reg, k) == IF k \in DOMAIN reg THEN reg[k] ELSE None

\* the keys under which two registries differ
Changed(before, after) ==
    {k \in DOMAIN before \cup DOMAIN after : Entry(before, k) # Entry(after, k)}

\* C10 -- key degeneracy: for a material identity M (a bare name or a
\* (name, uvSetNames) composite) key(M, "Surface") is M itself, unwrapped, and
\* for every other socket name s key(M, s) is the pair (M, s).
C10_KeyDegeneracy ==
    last.op = "key" =>
        IF last.socket = "Surface"
        THEN last.mat_key = last.identity
        ELSE last.mat_key =
                 <<"(">> \o last.identity \o <<"str", last.socket>> \o <<")">>

C10_Witness ==
    /\ last.op = "key"
    /\ last.socket = "Displacement"
    /\ last.identity = uv_identity("Wood", MeshB)
    /\ last.mat_key # last.identity

\* C4 -- registry invariant: every key of rpr_context.materials maps to a non-null
\* handle that final_export has produced, and a sync writes a key only after its
\* final_export returned that non-null handle (a sync_update likewise, through
\* its two syncs).
C4_RegistryCompiled ==
    /\ \A k \in DOMAIN materials :
           materials[k] # None /\ materials[k] \in 1..(next_handle - 1)
    /\ last.op = "sync" =>
           \A k \in Changed(last.pre, materials) :
               /\ k = last.mat_key
               /\ last.exports = 1
               /\ last.ret # None
               /\ materials[k] = last.ret
    /\ last.op = "sync_update" =>
           \A k \in Changed(last.pre, materials) :
               k \in DOMAIN materials =>
                   /\ materials[k] \in {last.surface, last.displacement}
                   /\ last.exports >= 1

C4_Witness ==
    /\ last.op = "sync"
    /\ last.exports = 1
    /\ last.mat_key \notin DOMAIN last.pre
    /\ last.mat_key \in DOMAIN materials

\* final_export on the material's active output node gives a handle for the
\* socket: there is an active output node and the socket resolves
Resolves(tree, input_socket_key) ==
    LET output_node == get_material_output_node(tree)
    IN  /\ output_node # None
        /\ final_export(tree, output_node, input_socket_key, 1) # None

\* C1, as stated -- calling sync twice in a row with the same material, socket
\* and consuming object returns the same result both times, the second call is
\* a cache hit that runs no final_export and leaves the registry alone, and
\* final_export ran exactly once when the first call missed the cache.
C1_TwiceCompilesOnce ==
    (last.op = "sync" /\ last.again) =>
        /\ last.ret = last.before_ret
        /\ last.exports = 0
        /\ last.mat_key \in DOMAIN last.pre
        /\ materials = last.pre
        /\ ~last.before_hit => last.before_exports = 1

\* C1, amended -- the same, for a first call that returned a handle: the second
\* call returns that handle, runs no final_export and leaves the registry alone,
\* and final_export ran exactly once when the first call missed the cache.
C1_TwiceAfterSuccess ==
    (last.op = "sync" /\ last.again /\ last.before_ret # None) =>
        /\ last.ret = last.before_ret
        /\ last.exports = 0
        /\ last.mat_key \in DOMAIN last.pre
        /\ materials = last.pre
        /\ ~last.before_hit => last.before_exports = 1

C1_Witness ==
    /\ last.op = "sync"
    /\ last.again
    /\ ~last.before_hit
    /\ last.before_exports = 1
    /\ last.before_ret # None
    /\ last.ret = last.before_ret

\* C5 -- a failed compile leaves no cache entry: when sync misses the cache and
\* final_export gives null, sync returns null, does not raise, and the registry
\* is what it was; a sync that returns null never changed the registry; and for
\* a material with Surface resolving and Displacement not (and the bare name as
\* identity), sync on Surface leaves the bare name registered with the handle
\* it returns and sync on Displacement registers nothing.
C5_FailedCompileLeavesNoEntry ==
    last.op = "sync" =>
        LET tree == node_tree[last.material]
            bare == PyStr(last.material)
        IN  /\ (last.exports = 1 /\ ~Resolves(tree, last.socket)) =>
                   last.ret = None /\ last.exc = "" /\ materials = last.pre
            /\ (last.exc = "" /\ last.ret = None) => materials = last.pre
            /\ ( /\ Resolves(tree, "Surface")
                 /\ ~Resolves(tree, "Displacement")
                 /\ last.mat_key = key(bare, last.socket) ) =>
                   IF last.socket = "Surface"
                   THEN /\ bare \in DOMAIN materials
                        /\ materials[bare] = last.ret
                        /\ last.ret # None
                   ELSE materials = last.pre

C5_Witness ==
    /\ last.op = "sync"
    /\ last.socket = "Displacement"
    /\ last.exports = 1
    /\ last.ret = None
    /\ PyStr(last.material) \in DOMAIN materials
    /\ last.mat_key \notin DOMAIN materials

\* the material has a node tree, and no node of it is flagged as active output
ZeroActive(tree) ==
    /\ ~tree.is_none
    /\ \A i \in 1..Len(tree.nodes) : ~tree.nodes[i].is_active_output

\* C6, as stated -- a sync of a material whose node tree has no node flagged as
\* active output returns null and creates no cache entry, whatever preceded.
C6_NoActiveOutputIsNull ==
    (last.op = "sync" /\ ZeroActive(node_tree[last.material])) =>
        /\ last.exc = ""
        /\ last.ret = None
        /\ materials = last.pre

\* C6, amended -- such a sync never compiles and never creates an entry; it
\* returns what the registry holds under the derived key: null when the key is
\* absent, else the handle cached there before the material lost its output.
C6_NoActiveOutputNoEntry ==
    (last.op = "sync" /\ ZeroActive(node_tree[last.material])) =>
        /\ last.exc = ""
        /\ last.exports = 0
        /\ materials = last.pre
        /\ last.ret = Entry(last.pre, last.mat_key)

C6_Witness ==
    /\ last.op = "sync"
    /\ ZeroActive(node_tree[last.material])
    /\ Len(node_tree[last.material].nodes) > 0
    /\ last.mat_key \notin DOMAIN last.pre
    /\ last.ret = None

\* the keys sync and sync_update derive for a material name
KeysOf(name) ==
    LET ids == {PyStr(name)}
                   \cup {uv_identity(name, o) : o \in {x \in Objects : IsMesh(x)}}
    IN  ids \cup {<<"(">> \o m \o <<"str", "Displacement">> \o <<")">> : m \in ids}

\* C7 -- sync on a material without node tree (and with nothing cached for it)
\* returns null, does not raise and writes no cache entry, for every consuming
\* object: none, non-mesh, or mesh.
C7_NoTreeIsNull ==
    ( /\ last.op = "sync"
      /\ node_tree[last.material].is_none
      /\ DOMAIN last.pre \cap KeysOf(last.material) = {} ) =>
        /\ last.exc = ""
        /\ last.ret = None
        /\ materials = last.pre

\* the keys of the two channels, written out for every material identity
SurfaceKeys == Identities
DisplacementKeys ==
    {<<"(">> \o m \o <<"str", "Displacement">> \o <<")">> : m \in Identities}

\* C9 -- channel independence: a sync changes at most one registry entry; a
\* sync on Displacement changes no Surface entry and a sync on Surface changes
\* no Displacement entry; and in sync_update the removal of the Surface key
\* changes no Displacement entry, the removal of the Displacement key no
\* Surface entry.
C9_ChannelsIndependent ==
    /\ last.op = "sync" =>
           /\ Cardinality(Changed(last.pre, materials)) <= 1
           /\ last.socket = "Displacement" =>
                  Changed(last.pre, materials) \cap SurfaceKeys = {}
           /\ last.socket = "Surface" =>
                  Changed(last.pre, materials) \cap DisplacementKeys = {}
    /\ (last.op = "sync_update" /\ Len(last.stages) = 4) =>
           /\ Changed(last.pre, last.stages[1]) \cap DisplacementKeys = {}
           /\ Changed(last.stages[2], last.stages[3]) \cap SurfaceKeys = {}
           /\ Cardinality(Changed(last.pre, last.stages[1])) <= 1
           /\ Cardinality(Changed(last.stages[2], last.stages[3])) <= 1

C9_Witness ==
    /\ last.op = "sync"
    /\ last.socket = "Displacement"
    /\ last.exports = 1
    /\ last.ret # None
    /\ PyStr(last.material) \in DOMAIN last.pre
    /\ materials[PyStr(last.material)] = last.pre[PyStr(last.material)]

\* C8 -- get_material_input_node never raises, and returns null when the
\* material has no node tree, has no active output node, the output node has
\* no socket of the asked name, the socket is unlinked, or its link is invalid.
C8_ResolverFailsSoftly ==
    last.op = "get_material_input_node" =>
        LET tree        == node_tree[last.material]
            output_node == get_material_output_node(tree)
            sockets     == IF output_node = None THEN {}
                           ELSE {x \in tree.nodes[output_node].inputs :
                                     x.name = last.socket}
        IN  /\ last.exc = ""
            /\ ( \/ tree.is_none
                 \/ output_node = None
                 \/ sockets = {}
                 \/ \E x \in sockets : x.links = <<>>
                 \/ \E x \in sockets : x.links # <<>> /\ ~x.links[1].is_valid )
               => last.node = NoneNode

\* C3 -- a sync_update that returned has, for each channel c of Surface and
\* Displacement, removed the old entry under key(identity, c) and, when the
\* channel's compile succeeds, left under that same key a handle compiled
\* during the call (one the registry did not hold before); for every consuming
\* object, meshes with a UV-Map node in the material included.
C3_UpdateRecompilesBothChannels ==
    (last.op = "sync_update" /\ last.exc = "") =>
        LET identity == IdentityOf(last.material, last.obj)
            surface_key == identity
            displacement_key ==
                <<"(">> \o identity \o <<"str", "Displacement">> \o <<")">>
        IN  /\ last.mat_key = surface_key
            /\ last.displacement_key = displacement_key
            /\ Resolves(node_tree[last.material], "Surface") =>
                   /\ surface_key \in DOMAIN materials
                   /\ materials[surface_key] \notin Handles(last.pre)
            /\ Resolves(node_tree[last.material], "Displacement") =>
                   /\ displacement_key \in DOMAIN materials
                   /\ materials[displacement_key] \notin Handles(last.pre)

\* C2 -- update invalidation: once a sync_update has returned, a later sync that
\* derives the key of one of its two channels never returns a handle the registry
\* held when that sync_update started; and a later sync of the same material
\* and consuming object derives one of those two keys (as long as the material
\* has, or lacks, a UV-Map node as it did at the update).
C2_UpdateInvalidates ==
    (upd.set /\ last.op = "sync" /\ last.exc = "") =>
        /\ last.mat_key \in {upd.mat_key, upd.displacement_key} =>
               last.ret \notin Handles(upd.pre)
        /\ ( /\ last.material = upd.material
             /\ last.obj = upd.obj
             /\ HasUVMapNode(node_tree[last.material]) = upd.has_uv ) =>
               last.mat_key \in {upd.mat_key, upd.displacement_key}

C2_Witness ==
    /\ upd.set
    /\ last.op = "sync"
    /\ last.material = upd.material
    /\ last.obj = upd.obj
    /\ last.mat_key = upd.mat_key
    /\ upd.mat_key \in DOMAIN upd.pre
    /\ last.ret # None

\* the meshes among the consuming objects
Meshes == {o \in Objects : IsMesh(o)}

\* C11 -- UV-sensitivity: for a mesh and a material holding a UV-Map node the
\* identity sync uses is (name, orderedUVSetNames): a mesh with another ordered
\* tuple of UV-set names derives another key (so their syncs fill two distinct
\* registry entries), a mesh with the same tuple derives the same key; for a
\* non-mesh object, or a material whose node tree holds no UV-Map node, the
\* identity is the bare name.  (Without node tree a sync for a mesh derives no
\* identity at all, see C7.)
C11_UVSensitivity ==
    (last.op = "sync" /\ last.exc = "") =>
        LET uv_case  == IsMesh(last.obj) /\ HasUVMapNode(node_tree[last.material])
            names    == last.obj.uv_sets_names
            uv_names == [i \in 1..Len(names) |-> <<"str", names[i]>>]
            composite ==
                <<"(", "str", last.material, "(">> \o PyConcat(uv_names) \o <<")", ")">>
            identity == IF uv_case THEN composite ELSE <<"str", last.material>>
        IN  /\ last.mat_key =
                   IF last.socket = "Surface" THEN identity
                   ELSE <<"(">> \o identity \o <<"str", last.socket, ")">>
            /\ uv_case =>
                   \A o \in Meshes :
                       (sync_mat_key(last.material, last.socket, o).value = last.mat_key)
                           <=> (o.uv_sets_names = names)
            /\ (uv_case /\ last.ret # None) =>
                   /\ last.mat_key \in DOMAIN materials
                   /\ materials[last.mat_key] = last.ret
                   /\ \A o \in Meshes :
                          LET other == sync_mat_key(last.material, last.socket, o).value
                          IN  ( /\ o.uv_sets_names # names
                                /\ other \in DOMAIN materials ) =>
                                  /\ other # last.mat_key
                                  /\ materials[other] # last.ret

\* mesh B's sync filled a second entry next to mesh A's, and mesh C (the UV
\* sets of A) derives A's key
C11_Witness ==
    /\ last.op = "sync"
    /\ last.material = "Wood"
    /\ last.socket = "Surface"
    /\ last.obj = MeshB
    /\ last.exports = 1
    /\ last.ret # None
    /\ uv_identity("Wood", MeshA) \in DOMAIN last.pre
    /\ uv_identity("Wood", MeshB) \in DOMAIN materials
    /\ materials[uv_identity("Wood", MeshB)] # materials[uv_identity("Wood", MeshA)]
    /\ sync_mat_key("Wood", "Surface", MeshC).value = uv_identity("Wood", MeshA)

\* C12 -- compile once across objects: in a run of sync calls without a
\* sync_update in between, once a sync has returned a handle for a material
\* identity and socket, every sync deriving that identity and socket -- for
\* whichever consuming object: none, a non-mesh, or a mesh with the same UV-set
\* names -- returns that same handle, which sits in the one registry entry of
\* their common key, and runs no final_export (the only call of the run that
\* compiled it is the first one, when the registry did not hold it yet).
C12_CompileOnceAcrossObjects ==
    /\ \A e \in trace.since :
           /\ key(e.identity, e.socket) \in DOMAIN materials
           /\ materials[key(e.identity, e.socket)] = e.handle
    /\ (last.op = "sync" /\ last.exc = "") =>
           \A e \in trace.since :
               ( /\ e.identity = IdentityOf(last.material, last.obj)
                 /\ e.socket = last.socket ) =>
                   /\ last.ret = e.handle
                   /\ last.mat_key = key(e.identity, e.socket)
                   /\ last.exports = 0 \/ e.handle \notin Handles(last.pre)
                   /\ e.obj # last.obj => last.exports = 0 /\ materials = last.pre

\* mesh C is served, without a compile, the handle a sync for mesh A returned first
C12_Witness ==
    /\ last.op = "sync"
    /\ last.obj = MeshC
    /\ last.exports = 0
    /\ last.ret # None
    /\ \E e \in trace.since :
           /\ e.obj = MeshA
           /\ e.identity = uv_identity(last.material, MeshC)
           /\ e.socket = last.socket
           /\ e.handle = last.ret

\* C13 -- sync_update always returns True, for every material and consuming
\* object, also when the Surface compile, the Displacement compile, or both
\* give null (so a True return does not tell that a channel's key is in the
\* registry).
C13_UpdateAlwaysTrue ==
    last.op = "sync_update" =>
        /\ last.exc = ""
        /\ last.ok = TRUE

\* C14 -- output-node lookup: get_material_output_node returns the first node,
\* in the order of the node collection, that is of the material output type
\* and carries the active-output flag; it returns null when no node is both
\* (an output node that is not active, or an active node of another type, is
\* never returned) and when the material has no node tree.
C14_FirstActiveOutput ==
    last.op = "get_material_output_node" =>
        LET tree == node_tree[last.material]
            both == {i \in 1..Len(tree.nodes) :
                         /\ tree.nodes[i].bl_idname = "ShaderNodeOutputMaterial"
                         /\ tree.nodes[i].is_active_output = TRUE}
        IN  /\ tree.is_none => last.index = None
            /\ both = {} => last.index = None
            /\ both # {} =>
                   /\ last.index \in both
                   /\ \A j \in both : last.index <= j

\* two nodes qualify and the earlier one is returned
C14_Witness ==
    /\ last.op = "get_material_output_node"
    /\ Len(node_tree[last.material].nodes) = 2
    /\ \A i \in 1..2 : IsActiveMaterialOutput(node_tree[last.material].nodes[i])
    /\ node_tree[last.material].nodes[1] # node_tree[last.material].nodes[2]
    /\ last.index = 1

\* C15 -- invalid links count as no link: for an existing socket of the active
\* output node, get_material_input_node returns the node at the other end of
\* the socket's link if and only if the socket is linked and the link is
\* valid; a link that is there but invalid gives null, as no link does, and
\* nothing is raised.
C15_InvalidLinkIsUnlinked ==
    last.op = "get_material_input_node" =>
        LET tree        == node_tree[last.material]
            output_node == get_material_output_node(tree)
        IN  output_node # None =>
                \A x \in tree.nodes[output_node].inputs :
                    x.name = last.socket =>
                        /\ last.exc = ""
                        /\ IF x.links # <<>> /\ x.links[1].is_valid = TRUE
                           THEN /\ last.node = x.links[1].from_node
                                /\ last.node # NoneNode
                           ELSE last.node = NoneNode

\* the Surface socket holds a link to a node, the link is invalid, null is returned
C15_Witness ==
    /\ last.op = "get_material_input_node"
    /\ last.socket = "Surface"
    /\ last.node = NoneNode
    /\ last.exc = ""
    /\ LET tree == node_tree[last.material]
       IN  /\ get_material_output_node(tree) # None
           /\ \E x \in tree.nodes[get_material_output_node(tree)].inputs :
                  /\ x.name = "Surface"
                  /\ x.is_linked
                  /\ ~x.links[1].is_valid
                  /\ x.links[1].from_node = "Principled BSDF"

\* the AOVs an export_aovs call enabled and the names of the passes it added
EnabledAovs == {last.aovs[k] : k \in 1..Len(last.aovs)}
AddedPasses == {last.passes[k].name : k \in 1..Len(last.passes)}

\* C16 -- export_aovs always enables the COLOR and the DEPTH AOV, whatever
\* enable_aovs holds; when the "Combined" (resp. "Depth") flag is set and the
\* host's view layer has its own combined (resp. Z) pass, no pass is added for
\* it while the AOV stays enabled; for every other flag that is set the pass is
\* added and its AOV enabled, except the variance AOV, for which neither
\* happens unless adaptive sampling is enabled.
C16_ColorAndDepthAlways ==
    last.op = "export_aovs" =>
        /\ "AOV_COLOR" \in EnabledAovs
        /\ "AOV_DEPTH" \in EnabledAovs
        /\ \A i \in DOMAIN aovs_info :
               view_layer.rpr.enable_aovs[i] =>
                   CASE aovs_info[i].name = "Combined" ->
                            view_layer.use_pass_combined => "Combined" \notin AddedPasses
                     [] aovs_info[i].name = "Depth" ->
                            view_layer.use_pass_z => "Depth" \notin AddedPasses
                     [] aovs_info[i].rpr = "AOV_VARIANCE" ->
                            IF last.enable_adaptive
                            THEN /\ aovs_info[i].name \in AddedPasses
                                 /\ "AOV_VARIANCE" \in EnabledAovs
                            ELSE /\ aovs_info[i].name \notin AddedPasses
                                 /\ "AOV_VARIANCE" \notin EnabledAovs
                     [] OTHER ->
                            /\ aovs_info[i].name \in AddedPasses
                            /\ aovs_info[i].rpr \in EnabledAovs

\* "Combined", "UV" and "Color Variance" are set, the host has its combined pass
\* and adaptive sampling is off: the UV pass is the only one added
C16_Witness ==
    /\ last.op = "export_aovs"
    /\ ~last.enable_adaptive
    /\ view_layer.use_pass_combined
    /\ \A i \in DOMAIN aovs_info :
           view_layer.rpr.enable_aovs[i] <=>
               aovs_info[i].name \in {"Combined", "UV", "Color Variance"}
    /\ AddedPasses = {"UV"}
    /\ EnabledAovs = {"AOV_COLOR", "AOV_DEPTH", "AOV_UV"}

\* how many passes an export_aovs call added under one of the names
PassCount(names) ==
    Cardinality({k \in 1..Len(last.passes) : last.passes[k].name \in names})

\* C20 -- cryptomatte gating: export_aovs adds and enables a cryptomatte pass
\* only when cryptomatte_allowed is true; then the three material cryptomatte
\* AOVs (entries 0-2 of cryptomatte_aovs_info) are added and enabled, once each,
\* iff crytomatte_aov_material is set, and the three object cryptomatte AOVs
\* (entries 3-5) iff crytomatte_aov_object is set; when cryptomatte_allowed is
\* false none of the six is added or enabled, whatever the two properties are.
C20_CryptomatteGated ==
    last.op = "export_aovs" =>
        LET material == {cryptomatte_aovs_info[i] : i \in 0..2}
            object   == {cryptomatte_aovs_info[i] : i \in 3..5}
            material_on == last.cryptomatte_allowed /\ view_layer.rpr.crytomatte_aov_material
            object_on   == last.cryptomatte_allowed /\ view_layer.rpr.crytomatte_aov_object
        IN  /\ {a.name : a \in material} =
                   {"CryptoMaterial00", "CryptoMaterial01", "CryptoMaterial02"}
            /\ {a.name : a \in object} =
                   {"CryptoObject00", "CryptoObject01", "CryptoObject02"}
            /\ \A a \in material :
                   /\ a.name \in AddedPasses <=> material_on
                   /\ a.rpr \in EnabledAovs <=> material_on
                   /\ PassCount({a.name}) = IF material_on THEN 1 ELSE 0
            /\ \A a \in object :
                   /\ a.name \in AddedPasses <=> object_on
                   /\ a.rpr \in EnabledAovs <=> object_on
                   /\ PassCount({a.name}) = IF object_on THEN 1 ELSE 0
            /\ ~last.cryptomatte_allowed =>
                   /\ \A i \in DOMAIN cryptomatte_aovs_info :
                          /\ cryptomatte_aovs_info[i].name \notin AddedPasses
                          /\ cryptomatte_aovs_info[i].rpr \notin EnabledAovs

\* cryptomatte is allowed and only the material property is set: the three
\* material passes are added, none of the object passes
C20_Witness ==
    /\ last.op = "export_aovs"
    /\ last.cryptomatte_allowed
    /\ view_layer.rpr.crytomatte_aov_material
    /\ ~view_layer.rpr.crytomatte_aov_object
    /\ PassCount({"CryptoMaterial00", "CryptoMaterial01", "CryptoMaterial02"}) = 3
    /\ PassCount({"CryptoObject00", "CryptoObject01", "CryptoObject02"}) = 0
    /\ {"AOV_CRYPTOMATTE_MAT0", "AOV_CRYPTOMATTE_MAT1", "AOV_CRYPTOMATTE_MAT2"}
           \subseteq EnabledAovs

\* two different (material identity, socket name) pairs that key maps to one key
KeyCollisions ==
    {p \in (Identities \X SocketKeys) \X (Identities \X SocketKeys) :
         /\ key(p[1][1], p[1][2]) = key(p[2][1], p[2][2])
         /\ p[1] # p[2]}

\* C17 -- cache-key injectivity: over the material identities sync builds (bare
\* names and (name, uvSetNames) composites) and all socket names, equal keys
\* come from equal identities and equal socket names; so a handle sync returns
\* was compiled for the identity and the socket of this very call -- a handle
\* compiled for Surface is never returned for Displacement.
C17_KeyInjective ==
    /\ KeyCollisions = {}
    /\ (last.op = "sync" /\ last.exc = "") =>
           LET identity == IdentityOf(last.material, last.obj)
           IN  /\ \A m \in Identities, s \in SocketKeys :
                      key(m, s) = last.mat_key => m = identity /\ s = last.socket
               /\ last.ret # None =>
                      /\ last.ret \in DOMAIN trace.made
                      /\ trace.made[last.ret].identity = identity
                      /\ trace.made[last.ret].socket = last.socket

\* a Displacement request is served from the cache while the registry also
\* holds the Surface handle of the same identity
C17_Witness ==
    /\ last.op = "sync"
    /\ last.socket = "Displacement"
    /\ last.exports = 0
    /\ last.ret # None
    /\ IdentityOf(last.material, last.obj) \in DOMAIN materials
    /\ materials[IdentityOf(last.material, last.obj)] # last.ret
    /\ trace.made[materials[IdentityOf(last.material, last.obj)]].socket = "Surface"

\* C18 -- sync postcondition: a sync returns a non-null handle h if and only
\* if, right after the call, the registry holds the call's derived key mapped
\* to h, and it returns null if and only if that key is absent from the
\* registry after the call; the two syncs inside a sync_update included.
C18_SyncPostcondition ==
    /\ (last.op = "sync" /\ last.exc = "") =>
           /\ \A h \in 1..MaxHandles :
                  last.ret = h <=>
                      (last.mat_key \in DOMAIN materials /\ materials[last.mat_key] = h)
           /\ last.ret = None <=> last.mat_key \notin DOMAIN materials
    /\ (last.op = "sync_update" /\ Len(last.stages) = 4) =>
           LET after_surface      == last.stages[2]
               after_displacement == last.stages[4]
               bare_displacement  ==
                   <<"(", "str", last.material, "str", "Displacement", ")">>
           IN  /\ last.surface = None <=> last.mat_key \notin DOMAIN after_surface
               /\ last.surface # None =>
                      after_surface[last.mat_key] = last.surface
               /\ last.displacement = None <=>
                      bare_displacement \notin DOMAIN after_displacement
               /\ last.displacement # None =>
                      after_displacement[bare_displacement] = last.displacement

\* the material has lost its active output, the key is still registered, and
\* the sync returns the handle the registry holds
C18_Witness ==
    /\ last.op = "sync"
    /\ last.exc = ""
    /\ ZeroActive(node_tree[last.material])
    /\ last.exports = 0
    /\ last.ret # None
    /\ materials[last.mat_key] = last.ret

\* C19 -- sync_update frame: sync_update(ctx, M, obj) changes only entries whose
\* key is derived from M; it never changes an entry of a material with another
\* name; and the entries of M registered under another UV configuration than
\* obj's are still there afterwards, holding the handles they held before.
C19_UpdateFrame ==
    last.op = "sync_update" =>
        LET identity == IdentityOf(last.material, last.obj)
            own == {identity, <<"(">> \o identity \o <<"str", "Displacement", ")">>}
        IN  /\ Changed(last.pre, materials) \subseteq KeysOf(last.material)
            /\ \A n \in Names \ {last.material} :
                   \A k \in KeysOf(n) : Entry(materials, k) = Entry(last.pre, k)
            /\ \A k \in (DOMAIN last.pre \cap KeysOf(last.material)) \ own :
                   /\ k \in DOMAIN materials
                   /\ materials[k] = last.pre[k]

\* mesh A's entry is invalidated, mesh B's entry of the same material and the
\* other material's entry keep their handles
C19_Witness ==
    /\ last.op = "sync_update"
    /\ last.ok
    /\ last.material = "Wood"
    /\ last.obj = MeshA
    /\ uv_identity("Wood", MeshA) \in DOMAIN last.pre
    /\ uv_identity("Wood", MeshB) \in DOMAIN last.pre
    /\ uv_identity("Wood", MeshA) \notin DOMAIN materials
    /\ uv_identity("Wood", MeshB) \in DOMAIN materials
    /\ materials[uv_identity("Wood", MeshB)] = last.pre[uv_identity("Wood", MeshB)]

====
